---- MODULE Spec2Model ----
\* Model of colorexp (src/main.rs): the range merger add_range, the span
\* collector match_line and the per-line loop of run.
EXTENDS Integers, Sequences, FiniteSets, TLC

\* ---------------------------------------------------------------- bounds
\* offsets used by the add_range harness are 0..MaxPos
MaxPos == 4
\* ids used by the add_range harness are 0..MaxId
MaxId == 1
\* length of an input line
LineLen == 2
\* number of patterns on the command line is 1..MaxPatterns
MaxPatterns == 2
\* capturing groups of one pattern are 0..MaxGroups
MaxGroups == 2
\* occurrences the matcher reports for one line, over all patterns
MaxOcc == 2
\* a traced add_range call starts on a vector shorter than MaxLen
MaxLen == 3

\* ---------------------------------------------------------------- state
VARIABLES
    args,        \* struct Args, as parsed (patterns: capturing-group count of each)
    pc,          \* where run is: "read", "iter", "groups", "print" ("harness": add_range alone)
    line,        \* the line being processed
    ranges,      \* the Vec<RangeWithId> being built (add_range's `ranges`)
    color_idx,   \* match_line's color_idx
    re_i,        \* 0-based index of `re` in `for re in regexps`
    last_end,    \* captures_iter: end of the previous occurrence, -1 before the first
    cur,         \* match_: the occurrence being processed, the groups read so far
    g_i,         \* `i` of `for i in 0..groups_to_colorize`
    occ_n,       \* occurrences reported so far for this line
    first_spans, \* the occurrences (group 0) regexps[0] has on this line
    out,         \* the line printed last
    before,      \* history: `ranges` as it was when the last add_range call began
    new_range,   \* history: the argument `new_range` of the last add_range call
    owner,       \* history: per offset, the id of the first call that covered it
    claimed,     \* history: per offset, the caller indices of the patterns with a candidate there
    ids_of,      \* history: per caller index of a pattern, the ids of its candidates
    last_op,     \* history: name of the last operation
    nested,      \* history: per offset, the (pattern, lowest group) of the occurrences
                 \* in which several groups cover it
    lp,          \* add_range traced step by step: its locals [ranges, new_range, inserted, i]
    lg           \* history of the traced call

progVars == <<args, pc, line, color_idx, re_i, last_end, cur, g_i, occ_n, first_spans, out>>
histVars == <<before, new_range, owner, claimed, ids_of, last_op>>
loopVars == <<lp, lg>>
vars == <<progVars, ranges, histVars, nested, loopVars>>

\* struct RangeWithId
RangeWithId(s, e, c) == [start_idx |-> s, end_idx |-> e, id |-> c]

\* a replacement of the element at i instead of an insertion before it
InsertAt_Overwrite(v, i, x) == SubSeq(v, 1, i) \o <<x>> \o SubSeq(v, i + 2, Len(v))

\* an insertion one place too far to the right
InsertAt_OffByOne(v, i, x) == SubSeq(v, 1, i + 1) \o <<x>> \o SubSeq(v, i + 2, Len(v))

\* Vec::insert(i, x) with a 0-based index
InsertAt(v, i, x) == SubSeq(v, 1, i) \o <<x>> \o SubSeq(v, i + 1, Len(v))

\* ------------------------------------------------------------- add_range
\* The loop state of add_range is the record [ranges, new_range, inserted, i];
\* i is the 0-based index.

\* the leading piece, not clipped at the start of the existing range
LeadingPiece_Unclipped(nr, existing_range) ==
    RangeWithId(nr.start_idx, nr.end_idx, nr.id)

\* the leading piece, carrying the id of the existing range
LeadingPiece_ExistingId(nr, existing_range) ==
    RangeWithId(nr.start_idx, existing_range.start_idx, existing_range.id)

\* the non-overlapping piece before the existing range
LeadingPiece(nr, existing_range) ==
    RangeWithId(nr.start_idx, existing_range.start_idx, nr.id)

\* the new range left as it is after an overlap
Remainder_Unclipped(nr, existing_range) == nr

\* new_range.start_idx = existing_range.end_idx
Remainder(nr, existing_range) == [nr EXCEPT !.start_idx = existing_range.end_idx]

\* the insertion without the extra `i += 1`
EntirelyBefore_NoSkip(s) ==
    IF ~s.inserted
    THEN [ranges |-> InsertAt(s.ranges, s.i, s.new_range), new_range |-> s.new_range,
          inserted |-> TRUE, i |-> s.i]
    ELSE s

\* new_range.end_idx <= existing_range.start_idx: entirely before
EntirelyBefore(s) ==
    IF ~s.inserted
    THEN [ranges |-> InsertAt(s.ranges, s.i, s.new_range), new_range |-> s.new_range,
          inserted |-> TRUE, i |-> s.i + 1]
    ELSE s

\* the overlap branch without `inserted = true` when the rest is covered
Overlap_NoMark(s) ==
    LET existing_range == s.ranges[s.i + 1]
        nr == s.new_range
        lead == ~s.inserted /\ nr.start_idx < existing_range.start_idx
        rs == IF lead THEN InsertAt(s.ranges, s.i, LeadingPiece(nr, existing_range))
              ELSE s.ranges
        i1 == IF lead THEN s.i + 1 ELSE s.i
    IN  IF nr.end_idx > existing_range.end_idx
        THEN [ranges |-> rs, new_range |-> Remainder(nr, existing_range),
              inserted |-> s.inserted, i |-> i1]
        ELSE [ranges |-> rs, new_range |-> [nr EXCEPT !.start_idx = nr.end_idx],
              inserted |-> s.inserted, i |-> i1]

\* the overlap branch with `inserted = true` after the leading piece
Overlap_MarkOnLead(s) ==
    LET existing_range == s.ranges[s.i + 1]
        nr == s.new_range
        lead == ~s.inserted /\ nr.start_idx < existing_range.start_idx
        rs == IF lead THEN InsertAt(s.ranges, s.i, LeadingPiece(nr, existing_range))
              ELSE s.ranges
        i1 == IF lead THEN s.i + 1 ELSE s.i
    IN  IF nr.end_idx > existing_range.end_idx
        THEN [ranges |-> rs, new_range |-> Remainder(nr, existing_range),
              inserted |-> (s.inserted \/ lead), i |-> i1]
        ELSE [ranges |-> rs, new_range |-> [nr EXCEPT !.start_idx = nr.end_idx],
              inserted |-> TRUE, i |-> i1]

\* the overlap branch giving the overlapped existing range the new range's id
Overlap_Overwrite(s) ==
    LET existing_range == s.ranges[s.i + 1]
        nr == s.new_range
        lead == ~s.inserted /\ nr.start_idx < existing_range.start_idx
        r0 == [s.ranges EXCEPT ![s.i + 1].id = nr.id]
        rs == IF lead THEN InsertAt(r0, s.i, LeadingPiece(nr, existing_range))
              ELSE r0
        i1 == IF lead THEN s.i + 1 ELSE s.i
    IN  IF nr.end_idx > existing_range.end_idx
        THEN [ranges |-> rs, new_range |-> Remainder(nr, existing_range),
              inserted |-> s.inserted, i |-> i1]
        ELSE [ranges |-> rs, new_range |-> [nr EXCEPT !.start_idx = nr.end_idx],
              inserted |-> TRUE, i |-> i1]

\* the else branch: there is an overlap
Overlap(s) ==
    LET existing_range == s.ranges[s.i + 1]
        nr == s.new_range
        lead == ~s.inserted /\ nr.start_idx < existing_range.start_idx
        rs == IF lead THEN InsertAt(s.ranges, s.i, LeadingPiece(nr, existing_range))
              ELSE s.ranges
        i1 == IF lead THEN s.i + 1 ELSE s.i
    IN  IF nr.end_idx > existing_range.end_idx
        THEN [ranges |-> rs, new_range |-> Remainder(nr, existing_range),
              inserted |-> s.inserted, i |-> i1]
        ELSE [ranges |-> rs, new_range |-> [nr EXCEPT !.start_idx = nr.end_idx],
              inserted |-> TRUE, i |-> i1]

\* one iteration of the while loop, the closing `i += 1` included
LoopBody(s) ==
    LET existing_range == s.ranges[s.i + 1]
        t == IF s.new_range.end_idx <= existing_range.start_idx THEN EntirelyBefore(s)
             ELSE IF s.new_range.start_idx >= existing_range.end_idx THEN s
             ELSE Overlap(s)
    IN  [t EXCEPT !.i = t.i + 1]

\* the loop condition with <= for <
LoopGuard_OffByOne(s) == s.i <= Len(s.ranges)

\* the loop condition i < ranges.len(); the unchecked read of ranges[i] follows it
LoopGuard(s) == s.i < Len(s.ranges)

RECURSIVE RunLoop(_)
\* while i < ranges.len() { ... }
RunLoop(s) == IF LoopGuard(s) THEN RunLoop(LoopBody(s)) ELSE s

\* nothing is pushed after the scan
Finish_NoPush(s) == s.ranges

\* the new range is pushed after the scan whatever `inserted` says
Finish_Always(s) == Append(s.ranges, s.new_range)

\* the trailing `if !inserted { ranges.push(new_range) }`
Finish(s) == IF ~s.inserted THEN Append(s.ranges, s.new_range) ELSE s.ranges

\* fn add_range(ranges, new_range): the vector after the call
add_range(rs, nr) ==
    Finish(RunLoop([ranges |-> rs, new_range |-> nr, inserted |-> FALSE, i |-> 0]))

\* ------------------------------------------------------ helper predicates
Covers(r, p) == r.start_idx <= p /\ p < r.end_idx
Covered(rs, p) == \E k \in 1..Len(rs) : Covers(rs[k], p)
\* ids of the ranges of rs that cover offset p
IdsAt(rs, p) == {rs[k].id : k \in {j \in 1..Len(rs) : Covers(rs[j], p)}}

\* history update of `owner` for a call with argument nr
OwnerAfter(ow, nr) ==
    [p \in DOMAIN ow |-> IF ow[p] = {} /\ Covers(nr, p) THEN {nr.id} ELSE ow[p]]

\* one call add_range(&mut ranges, nr)
CallAddRange(nr) ==
    /\ ranges' = add_range(ranges, nr)
    /\ before' = ranges
    /\ new_range' = nr
    /\ owner' = OwnerAfter(owner, nr)
    /\ last_op' = "add_range"

\* ------------------------------------------------------------------ run
Reverse(s) == [k \in 1..Len(s) |-> s[Len(s) + 1 - k]]

FOREGROUND_COLORS == <<"ESC[31m", "ESC[32m", "ESC[33m", "ESC[34m", "ESC[35m", "ESC[36m">>
BACKGROUND_COLORS == <<"ESC[41m", "ESC[44m", "ESC[45m", "ESC[42m", "ESC[43m", "ESC[46m">>
RESET_FOREGROUND == "ESC[0m"
RESET_BACKGROUND == "ESC[49m"

\* run: let vary_group_colors = ...
vary_group_colors(a) ==
    IF a.vary_group_colors_on THEN TRUE
    ELSE IF a.vary_group_colors_off THEN FALSE
    ELSE Len(a.patterns) = 1

\* Regex built from args.patterns[k]: the pattern it was built from (its
\* place in the caller's list) and its captures_len()
Build(a, k) == [pattern |-> k, captures_len |-> a.patterns[k] + 1]

\* the patterns compiled in the caller's order
regexps_NoRev(a) == [k \in 1..Len(a.patterns) |-> Build(a, k)]

\* run: let regexps = args.patterns.iter().rev().map(build).collect()
regexps(a) == Reverse([k \in 1..Len(a.patterns) |-> Build(a, k)])

\* run: let colors = ...; a sequence of (start, reset) pairs
colors(a) ==
    (IF ~a.only_highlight
     THEN [k \in 1..Len(FOREGROUND_COLORS) |-> <<FOREGROUND_COLORS[k], RESET_FOREGROUND>>]
     ELSE <<>>)
    \o
    (IF ~a.no_highlight
     THEN [k \in 1..Len(BACKGROUND_COLORS) |-> <<BACKGROUND_COLORS[k], RESET_BACKGROUND>>]
     ELSE <<>>)

\* ------------------------------------------------------------ match_line
Min2(a, b) == IF a < b THEN a ELSE b
num_groups(re) == re.captures_len - 1
\* group 0 is taken as the first group whatever the pattern
first_group_to_colorize_Zero(re, full) == 0

first_group_to_colorize(re, full) == IF full THEN 0 ELSE Min2(1, num_groups(re))
groups_to_colorize(re, full) ==
    IF full THEN 1 ELSE num_groups(re) + 1 - first_group_to_colorize(re, full)

\* the offsets of the groups counted upwards
cur_color_idx_Ascending(cidx, vary, gtc, i) == IF vary THEN cidx + i ELSE cidx

\* cur_color_idx of iteration i of the group loop
cur_color_idx(cidx, vary, gtc, i) == IF vary THEN cidx + (gtc - 1 - i) ELSE cidx

\* color_idx left as it is after a pattern
next_color_idx_Stuck(cidx, vary, gtc) == IF vary THEN cidx + gtc ELSE cidx

\* color_idx after a pattern has been processed
next_color_idx(cidx, vary, gtc) == IF vary THEN cidx + gtc ELSE cidx + 1

\* The matcher (regex crate) is external: re.captures_iter(line) yields
\* occurrences left to right; match_.get(g) gives <<>> (group g did not
\* participate) or <<start, end>>.  Group 0 always participates and starts at
\* or after the end of the previous occurrence; an empty occurrence is not
\* reported at the end of the previous one; the other groups lie inside
\* group 0.
Spans(lo, hi) == {x \in (lo..hi) \X (lo..hi) : x[1] <= x[2]}
\* group 0 of the occurrences captures_iter can report next
Occurrences(n, prev_end) ==
    {x \in Spans(IF prev_end < 0 THEN 0 ELSE prev_end, n) :
        ~(x[1] = x[2] /\ x[2] = prev_end)}
\* what match_.get(g) can be for a group g >= 1 of an occurrence m0
GroupSpans(m0) == {<<>>} \cup Spans(m0[1], m0[2])

\* ------------------------------------------------------------- rendering
Text(l, a, b) == SubSeq(l, a + 1, b)
RECURSIVE Emit(_, _, _, _)
\* the text of l from offset pos, with the spans items[k..] wrapped in their codes
Emit(l, pos, items, k) ==
    IF k > Len(items) THEN Text(l, pos, Len(l))
    ELSE Text(l, pos, items[k].start_idx) \o <<items[k].on>>
         \o Text(l, items[k].start_idx, items[k].end_idx) \o <<items[k].off>>
         \o Emit(l, items[k].end_idx, items, k + 1)

\* run: regexps[0].replace_all(&line, format!("{}$0{}", colors[0].0, colors[0].1))
replace_all(l, spans, cs) ==
    Emit(l, 0, [k \in 1..Len(spans) |->
                  [start_idx |-> spans[k][1], end_idx |-> spans[k][2],
                   on |-> cs[1][1], off |-> cs[1][2]]], 1)

\* ------------------------------------------------------------- run: Init
ArgsSet ==
    {a \in [patterns : UNION {[1..n -> 0..MaxGroups] : n \in 1..MaxPatterns},
            full_match_highlight : BOOLEAN,
            no_highlight : BOOLEAN, only_highlight : BOOLEAN,
            vary_group_colors_off : BOOLEAN, vary_group_colors_on : BOOLEAN] :
        /\ ~(a.no_highlight /\ a.only_highlight)
        /\ ~(a.vary_group_colors_off /\ a.vary_group_colors_on)}

CharAt(k) == CASE k = 1 -> "a" [] k = 2 -> "b" [] k = 3 -> "c" [] k = 4 -> "d" [] OTHER -> "e"
Lines == {[k \in 1..LineLen |-> CharAt(k)]}

IdleLp == [ranges |-> <<>>, new_range |-> RangeWithId(0, 0, 0), inserted |-> FALSE, i |-> 0]
IdleLg == [reads |-> <<>>, orig |-> <<>>, ev |-> "none", e |-> RangeWithId(0, 0, 0),
           nr0 |-> RangeWithId(0, 0, 0), i0 |-> 0, led |-> FALSE, lead_end |-> 0,
           late |-> 0, pushed |-> FALSE]

IdleLoop ==
    /\ line = <<>>
    /\ ranges = <<>>
    /\ color_idx = 0
    /\ re_i = 0
    /\ last_end = -1
    /\ cur = <<>>
    /\ g_i = 0
    /\ occ_n = 0
    /\ first_spans = <<>>
    /\ out = <<>>
    /\ before = <<>>
    /\ new_range = RangeWithId(0, 0, 0)
    /\ claimed = <<>>
    /\ ids_of = <<>>
    /\ last_op = "none"
    /\ nested = <<>>
    /\ lp = IdleLp
    /\ lg = IdleLg

\* state of run when it reaches `for line in stdin.lock().lines()`
InitRun ==
    /\ args \in ArgsSet
    /\ pc = "read"
    /\ owner = <<>>
    /\ IdleLoop

\* `for line in ...`: the next line is read and match_line starts on it
ReadLine ==
    /\ pc = "read"
    /\ line' \in Lines
    /\ ranges' = <<>>
    /\ color_idx' = 0
    /\ re_i' = 0
    /\ last_end' = -1
    /\ cur' = <<>>
    /\ g_i' = 0
    /\ occ_n' = 0
    /\ first_spans' = <<>>
    /\ before' = <<>>
    /\ new_range' = RangeWithId(0, 0, 0)
    /\ owner' = [p \in 0..(Len(line') - 1) |-> {}]
    /\ claimed' = [p \in 0..(Len(line') - 1) |-> {}]
    /\ ids_of' = [k \in 1..Len(args.patterns) |-> {}]
    /\ nested' = [p \in 0..(Len(line') - 1) |-> {}]
    /\ out' = <<>>
    /\ last_op' = "read"
    /\ pc' = "iter"
    /\ UNCHANGED <<args, loopVars>>

\* `for match_ in re.captures_iter(line)`: the matcher reports an occurrence
NextMatch ==
    /\ pc = "iter"
    /\ occ_n < MaxOcc
    /\ \E m0 \in Occurrences(Len(line), last_end) :
        /\ cur' = <<m0>>
        /\ last_end' = m0[2]
        /\ first_spans' = IF re_i = 0 THEN Append(first_spans, m0) ELSE first_spans
    /\ occ_n' = occ_n + 1
    /\ g_i' = 0
    /\ pc' = "groups"
    /\ last_op' = "match"
    /\ UNCHANGED <<args, line, ranges, color_idx, re_i, out, before, new_range, owner, claimed, ids_of,
                   nested, loopVars>>

\* the groups 1.. of occurrence c read so far that participate and cover offset p
GroupsAt(c, p) ==
    {j \in 1..(Len(c) - 1) : c[j + 1] # <<>> /\ c[j + 1][1] <= p /\ p < c[j + 1][2]}

\* history update of `nested` when group span g of pattern me is submitted,
\* c being the groups of the occurrence read before it
NestedAfter(nst, c, g, me) ==
    [p \in DOMAIN nst |->
        IF g[1] <= p /\ p < g[2] /\ GroupsAt(c, p) # {}
        THEN nst[p] \cup {[pat |-> me,
                           grp |-> CHOOSE j \in GroupsAt(c, p) : \A k \in GroupsAt(c, p) : j <= k]}
        ELSE nst[p]]

\* one iteration of `for i in 0..groups_to_colorize`, g being match_.get(g_idx)
GroupIter(g) ==
    LET re == regexps(args)[re_i + 1]
        full == args.full_match_highlight
        gtc == groups_to_colorize(re, full)
        cci == cur_color_idx(color_idx, vary_group_colors(args), gtc, g_i)
        g_idx == g_i + first_group_to_colorize(re, full)
        me == re.pattern
    IN  /\ cur' = IF g_idx = 0 THEN cur ELSE Append(cur, g)
        /\ IF g # <<>>
           THEN /\ CallAddRange(RangeWithId(g[1], g[2], cci))
                /\ claimed' = [p \in DOMAIN claimed |->
                                 IF g[1] <= p /\ p < g[2] THEN claimed[p] \cup {me}
                                 ELSE claimed[p]]
                /\ ids_of' = [ids_of EXCEPT ![me] = @ \cup {cci}]
                /\ nested' = NestedAfter(nested, cur, g, me)
           ELSE /\ last_op' = "skip"
                /\ UNCHANGED <<ranges, before, new_range, owner, claimed, ids_of, nested>>
        /\ g_i' = g_i + 1
        /\ pc' = IF g_i + 1 < gtc THEN "groups" ELSE "iter"

GroupStep ==
    /\ pc = "groups"
    /\ IF g_i + first_group_to_colorize(regexps(args)[re_i + 1], args.full_match_highlight) = 0
       THEN GroupIter(cur[1])
       ELSE \E g \in GroupSpans(cur[1]) : GroupIter(g)
    /\ UNCHANGED <<args, line, color_idx, re_i, last_end, occ_n, first_spans, out, loopVars>>

\* captures_iter is exhausted: color_idx advances and the next pattern is
\* taken; after the last one match_line returns
EndMatches ==
    /\ pc = "iter"
    /\ LET re == regexps(args)[re_i + 1]
           gtc == groups_to_colorize(re, args.full_match_highlight)
       IN  color_idx' = next_color_idx(color_idx, vary_group_colors(args), gtc)
    /\ re_i' = re_i + 1
    /\ last_end' = -1
    /\ cur' = <<>>
    /\ pc' = IF re_i + 1 < Len(regexps(args)) THEN "iter" ELSE "print"
    /\ last_op' = "end"
    /\ UNCHANGED <<args, line, ranges, g_i, occ_n, first_spans, out, before, new_range, owner, claimed, ids_of,
                   nested, loopVars>>

\* println!("{out}") with out = regexps[0].replace_all(...)
PrintLine ==
    /\ pc = "print"
    /\ out' = replace_all(line, first_spans, colors(args))
    /\ pc' = "read"
    /\ last_op' = "print"
    /\ UNCHANGED <<args, line, ranges, color_idx, re_i, last_end, cur, g_i, occ_n, first_spans,
                   before, new_range, owner, claimed, ids_of, nested, loopVars>>

NextRun == ReadLine \/ NextMatch \/ GroupStep \/ EndMatches \/ PrintLine

SpecRun == InitRun /\ [][NextRun]_vars

\* ------------------------------------------------- harness for add_range
\* candidate ranges of the harness: start < end
NonEmptyRanges ==
    {r \in [start_idx : 0..MaxPos, end_idx : 0..MaxPos, id : 0..MaxId] :
        r.start_idx < r.end_idx}

NoArgs == [patterns |-> <<>>, full_match_highlight |-> FALSE, no_highlight |-> FALSE,
           only_highlight |-> FALSE, vary_group_colors_off |-> FALSE,
           vary_group_colors_on |-> FALSE]

\* add_range called on an empty vector, as test_add_range and match_line do
Init ==
    /\ args = NoArgs
    /\ pc = "harness"
    /\ owner = [p \in 0..(MaxPos - 1) |-> {}]
    /\ IdleLoop

AddRange ==
    /\ pc = "harness"
    /\ \E nr \in NonEmptyRanges : CallAddRange(nr)
    /\ UNCHANGED <<progVars, claimed, ids_of, nested, loopVars>>

Next == AddRange

Spec == Init /\ [][Next]_vars

\* --------------------------------------------- add_range, step by step
\* new ranges of the traced calls: start <= end, as match_line builds them
AllRanges ==
    {r \in [start_idx : 0..MaxPos, end_idx : 0..MaxPos, id : 0..MaxId] :
        r.start_idx <= r.end_idx}

InitLoop ==
    /\ args = NoArgs
    /\ pc = "call"
    /\ owner = [p \in 0..(MaxPos - 1) |-> {}]
    /\ IdleLoop

\* add_range is entered: let mut inserted = false; let mut i = 0;
BeginCall ==
    /\ pc = "call"
    /\ Len(ranges) < MaxLen
    /\ \E nr \in AllRanges :
          /\ lp' = [ranges |-> ranges, new_range |-> nr, inserted |-> FALSE, i |-> 0]
          /\ new_range' = nr
    /\ lg' = [IdleLg EXCEPT !.orig = [k \in 1..Len(ranges) |-> TRUE]]
    /\ before' = ranges
    /\ last_op' = "begin"
    /\ pc' = "scan"
    /\ UNCHANGED <<args, line, ranges, color_idx, re_i, last_end, cur, g_i, occ_n, first_spans, out,
                   owner, claimed, ids_of, nested>>

\* one iteration of the while loop: ranges[i] is read and handled
LoopIter ==
    /\ pc = "scan"
    /\ LoopGuard(lp)
    /\ LET e == lp.ranges[lp.i + 1]
           t == LoopBody(lp)
           grew == Len(t.ranges) > Len(lp.ranges)
           lead == /\ ~lp.inserted
                   /\ lp.new_range.end_idx > e.start_idx
                   /\ lp.new_range.start_idx < e.end_idx
                   /\ lp.new_range.start_idx < e.start_idx
       IN  /\ lp' = t
           /\ ranges' = t.ranges
           /\ lg' = [reads |-> Append(lg.reads, e),
                     orig |-> IF grew THEN InsertAt(lg.orig, lp.i, FALSE) ELSE lg.orig,
                     ev |-> IF lead THEN "lead" ELSE "step",
                     e |-> e, nr0 |-> lp.new_range, i0 |-> lp.i,
                     led |-> (lg.led \/ lead),
                     lead_end |-> IF lead /\ ~lg.led THEN e.end_idx ELSE lg.lead_end,
                     late |-> IF lg.led /\ grew THEN lg.late + 1 ELSE lg.late,
                     pushed |-> FALSE]
    /\ last_op' = "iter"
    /\ UNCHANGED <<progVars, before, new_range, owner, claimed, ids_of, nested>>

\* the loop is left: if !inserted { ranges.push(new_range) }, and the call returns
EndCall ==
    /\ pc = "scan"
    /\ ~LoopGuard(lp)
    /\ LET fin == Finish(lp)
           grew == Len(fin) > Len(lp.ranges)
       IN  /\ ranges' = fin
           /\ lp' = [lp EXCEPT !.ranges = fin]
           /\ lg' = [lg EXCEPT !.pushed = grew, !.ev = "end",
                               !.late = IF lg.led /\ grew THEN @ + 1 ELSE @]
    /\ owner' = OwnerAfter(owner, new_range)
    /\ last_op' = "add_range"
    /\ pc' = "call"
    /\ UNCHANGED <<args, line, color_idx, re_i, last_end, cur, g_i, occ_n, first_spans, out,
                   before, new_range, claimed, ids_of, nested>>

NextLoop == BeginCall \/ LoopIter \/ EndCall

SpecLoop == InitLoop /\ [][NextLoop]_vars

\* ============================================================== claims
Sorted(rs) == \A k \in 1..(Len(rs) - 1) : rs[k].start_idx <= rs[k + 1].start_idx
NonOverlapping(rs) == \A k \in 1..(Len(rs) - 1) : rs[k].end_idx <= rs[k + 1].start_idx

RECURSIVE IsSubsequence(_, _)
\* a is b with zero or more elements left out
IsSubsequence(a, b) ==
    IF a = <<>> THEN TRUE
    ELSE IF b = <<>> THEN FALSE
    ELSE IF Head(a) = Head(b) THEN IsSubsequence(Tail(a), Tail(b))
    ELSE IsSubsequence(a, Tail(b))

Elements(rs) == {rs[k] : k \in 1..Len(rs)}
\* the ranges the last add_range call added
Added == Elements(ranges) \ Elements(before)
\* the last call's new range and an existing range share an offset
Overlaps(nr, e) == nr.start_idx < e.end_idx /\ e.start_idx < nr.end_idx
Called == last_op = "add_range"
Offsets == DOMAIN owner

\* ------------------------------------------------------------------ C1
\* C1: after any sequence of add_range calls with start < end, the sequence
\* is sorted by start and adjacent ranges do not overlap (touching allowed).
C1_SortedNonOverlapping == Sorted(ranges) /\ NonOverlapping(ranges)

\* a call has split its new range around an existing one
C1_Witness == Called /\ Len(ranges) = Len(before) + 2 /\ Len(before) >= 1

\* ------------------------------------------------------------------ C2
\* C2: an add_range call keeps every range that was in the sequence, with
\* its start, end and id and in the same order: the sequence before the call
\* is a subsequence of the sequence after it.
C2_ExistingKept == Called => IsSubsequence(before, ranges)

\* a call whose new range overlapped an existing range of another id and
\* still added something
C2_Witness ==
    /\ Called
    /\ Len(before) >= 2
    /\ Len(ranges) > Len(before)
    /\ \E k \in 1..Len(before) :
          Overlaps(new_range, before[k]) /\ before[k].id # new_range.id

\* ------------------------------------------------------------------ C3
\* C3: the ranges a call adds all carry the new range's id, cover exactly the
\* offsets of the new range that no existing range covered, and the result is
\* in sorted, non-overlapping order.
C3_AddedIsUncoveredPart ==
    Called =>
        /\ Len(ranges) = Len(before) + Cardinality(Added)
        /\ \A r \in Added : r.id = new_range.id /\ r.start_idx < r.end_idx
        /\ \A p \in Offsets :
              (\E r \in Added : Covers(r, p))
                  <=> (Covers(new_range, p) /\ ~Covered(before, p))
        /\ Sorted(ranges) /\ NonOverlapping(ranges)

\* a call that added two pieces and left an overlapped range alone
C3_Witness ==
    /\ Called
    /\ Cardinality(Added) >= 2
    /\ \E p \in Offsets : Covers(new_range, p) /\ Covered(before, p)

\* ------------------------------------------------------------------ C4
MaxOf(S) == CHOOSE x \in S : \A y \in S : y <= x
\* C4: when match_line has returned, an offset inside candidate ranges of
\* several patterns is covered by a range whose id is one of the pattern listed
\* last by the caller among them, and of none of the others.
C4_LastListedWins ==
    pc = "print" =>
        \A p \in DOMAIN claimed :
            Cardinality(claimed[p]) >= 2 =>
                /\ IdsAt(ranges, p) # {}
                /\ IdsAt(ranges, p) \subseteq ids_of[MaxOf(claimed[p])]
                /\ \A a \in claimed[p] \ {MaxOf(claimed[p])} :
                      IdsAt(ranges, p) \cap ids_of[a] = {}

\* match_line has returned and two patterns had a candidate at one offset
C4_Witness ==
    /\ pc = "print"
    /\ \E p \in DOMAIN claimed : Cardinality(claimed[p]) >= 2

\* ------------------------------------------------------------------ C5
\* C5 as stated: the offsets a call's new range shares with ranges inserted
\* earlier carry the id of the later call.
C5_LaterCallWins ==
    Called =>
        \A p \in Offsets :
            (Covers(new_range, p) /\ Covered(before, p))
                => IdsAt(ranges, p) = {new_range.id}

\* C5 amended: every offset carries the id of the first add_range call whose
\* new range covered it (earlier calls win overlaps), and match_line takes the
\* patterns from the last-listed (highest priority) to the first-listed.
C5_EarlierCallWins ==
    /\ \A p \in Offsets : IdsAt(ranges, p) = owner[p]
    /\ pc \in {"iter", "groups"}
          => regexps(args)[re_i + 1].pattern = Len(args.patterns) - re_i

\* a call of match_line whose new range overlapped a range of another id
C5_Witness ==
    /\ Called
    /\ pc \in {"iter", "groups"}
    /\ \E p \in Offsets :
          Covers(new_range, p) /\ Covered(before, p) /\ new_range.id \notin IdsAt(before, p)

\* ------------------------------------------------------------------ C6
\* the line the Renderer of the specification produces from a range sequence
Render(l, rs, cs) ==
    Emit(l, 0, [k \in 1..Len(rs) |->
                  [start_idx |-> rs[k].start_idx, end_idx |-> rs[k].end_idx,
                   on |-> cs[(rs[k].id % Len(cs)) + 1][1],
                   off |-> cs[(rs[k].id % Len(cs)) + 1][2]]], 1)

\* C6: the printed line is the input line with every range of the final
\* sequence wrapped in the start and reset code of palette entry id modulo
\* palette size.
C6_OutputRendersRanges ==
    last_op = "print" => out = Render(line, ranges, colors(args))

\* ------------------------------------------------------------------ C7
\* 1-based place of the first range of rs starting at or after offset x,
\* Len(rs) + 1 if there is none
FirstAtOrAfter(rs, x) ==
    IF \E k \in 1..Len(rs) : rs[k].start_idx >= x
    THEN CHOOSE k \in 1..Len(rs) :
            /\ rs[k].start_idx >= x
            /\ \A j \in 1..(k - 1) : rs[j].start_idx < x
    ELSE Len(rs) + 1

NoOverlap == \A k \in 1..Len(before) : ~Overlaps(new_range, before[k])

\* C7: a new range that overlaps no existing range is added whole, once,
\* before the first existing range that starts at or after its end (at the
\* end if there is none); nothing else changes.
C7_DisjointInsertedWhole ==
    (Called /\ NoOverlap) =>
        LET k == FirstAtOrAfter(before, new_range.end_idx)
        IN  ranges = SubSeq(before, 1, k - 1) \o <<new_range>>
                        \o SubSeq(before, k, Len(before))

\* a new range put between two existing ranges
C7_Witness ==
    /\ Called /\ NoOverlap
    /\ Len(before) >= 2
    /\ FirstAtOrAfter(before, new_range.end_idx) \in 2..Len(before)

\* ------------------------------------------------------------------ C8
Contained == \E k \in 1..Len(before) :
                /\ before[k].start_idx <= new_range.start_idx
                /\ new_range.end_idx <= before[k].end_idx

\* C8: a new range lying inside one existing range changes nothing, and a
\* second call with the same new range changes nothing either.
C8_ContainedIsNoOp ==
    Called =>
        /\ Contained => ranges = before
        /\ add_range(ranges, new_range) = ranges

\* a new range strictly inside an existing range of another id
C8_Witness ==
    /\ Called
    /\ \E k \in 1..Len(before) :
          /\ before[k].start_idx < new_range.start_idx
          /\ new_range.end_idx < before[k].end_idx
          /\ before[k].id # new_range.id

\* ------------------------------------------------------------------ C9
\* the new range starts inside before[k], ends inside before[k + 1], and
\* there is a gap between the two
Bridges(k) ==
    /\ before[k].start_idx <= new_range.start_idx
    /\ new_range.start_idx < before[k].end_idx
    /\ before[k + 1].start_idx < new_range.end_idx
    /\ new_range.end_idx <= before[k + 1].end_idx
    /\ before[k].end_idx < before[k + 1].start_idx

\* C9: a new range that starts inside one existing range and ends inside the
\* next adds exactly the gap between them, with its own id, between them.
C9_BridgeFillsGap ==
    Called =>
        \A k \in 1..(Len(before) - 1) :
            Bridges(k) =>
                ranges = SubSeq(before, 1, k)
                    \o <<RangeWithId(before[k].end_idx, before[k + 1].start_idx, new_range.id)>>
                    \o SubSeq(before, k + 1, Len(before))

\* a bridging call whose id differs from both neighbours
C9_Witness ==
    /\ Called
    /\ \E k \in 1..(Len(before) - 1) :
          /\ Bridges(k)
          /\ before[k].id # new_range.id
          /\ before[k + 1].id # new_range.id

\* ----------------------------------------------------------------- C10
OverlappedPlaces == {k \in 1..Len(before) : Overlaps(new_range, before[k])}
SticksOutLeft(e) ==
    new_range.start_idx < e.start_idx /\ new_range.end_idx <= e.end_idx
SticksOutRight(e) ==
    new_range.start_idx >= e.start_idx /\ new_range.end_idx > e.end_idx

\* C10: a new range that overlaps exactly one existing range e and sticks out
\* of it on one side adds exactly one range, with its own id: the part left of
\* e, or the part right of e; the existing ranges stay.
C10_OneSidedOverlapClipped ==
    Called =>
        \A k \in OverlappedPlaces :
            (OverlappedPlaces = {k} /\ (SticksOutLeft(before[k]) \/ SticksOutRight(before[k])))
            =>  /\ Len(ranges) = Len(before) + 1
                /\ IsSubsequence(before, ranges)
                /\ Added = { IF SticksOutLeft(before[k])
                             THEN RangeWithId(new_range.start_idx, before[k].start_idx,
                                              new_range.id)
                             ELSE RangeWithId(before[k].end_idx, new_range.end_idx,
                                              new_range.id) }

\* a new range sticking out on the left of the one range it overlaps
C10_Witness ==
    /\ Called
    /\ \E k \in 1..Len(before) :
          /\ OverlappedPlaces = {k}
          /\ SticksOutLeft(before[k])
          /\ before[k].id # new_range.id

\* ------------------------------------------------- match_line, claim side
\* capturing groups of the pattern match_line processes k-th (k from 0)
ProcessedGroups(k) == args.patterns[Len(args.patterns) - k]
\* only the whole match of that pattern is coloured
WholeOnly(k) == args.full_match_highlight \/ ProcessedGroups(k) = 0
\* number of colorable groups of that pattern
Colorable(k) == IF WholeOnly(k) THEN 1 ELSE ProcessedGroups(k)
InMatch == pc \in {"iter", "groups"}
\* an iteration of the group loop has just run
Stepped == InMatch /\ last_op \in {"add_range", "skip"}
\* the group that iteration was about
JustRead == IF WholeOnly(re_i) THEN 0 ELSE g_i

\* ----------------------------------------------------------------- C11
\* C11: per occurrence match_line submits exactly the whole match when
\* fullMatchHighlight is set or the pattern has no capturing groups, and
\* otherwise the participating groups 1..n in ascending order, never group 0
\* and never a group that did not participate.
C11_SubmittedGroups ==
    Stepped =>
        /\ g_i \in 1..Colorable(re_i)
        /\ (pc = "groups") <=> (g_i < Colorable(re_i))
        /\ Len(cur) = JustRead + 1
        /\ IF cur[JustRead + 1] = <<>>
           THEN last_op = "skip" /\ JustRead >= 1
           ELSE /\ last_op = "add_range"
                /\ new_range.start_idx = cur[JustRead + 1][1]
                /\ new_range.end_idx = cur[JustRead + 1][2]

\* an occurrence whose group 1 participated and whose group 2 did not
C11_Witness ==
    /\ Stepped /\ last_op = "skip"
    /\ g_i = 2
    /\ cur[2] # <<>>

\* ----------------------------------------------------------------- C12
\* C12: without varyGroupColors every range submitted for the k-th processed
\* pattern carries id k; a single pattern without groups gives one range per
\* occurrence, left to right, all with id 0.
C12_OneIdPerPattern ==
    ~vary_group_colors(args) =>
        /\ (Called /\ InMatch) => new_range.id = re_i
        /\ \A c \in DOMAIN ids_of : ids_of[c] \subseteq {Len(args.patterns) - c}
        /\ (pc = "print" /\ args.patterns = <<0>>)
              => ranges = [k \in 1..Len(first_spans) |->
                             RangeWithId(first_spans[k][1], first_spans[k][2], 0)]

\* the second of two patterns has had a range submitted
C12_Witness ==
    /\ ~vary_group_colors(args)
    /\ Called /\ InMatch
    /\ re_i = 1
    /\ ids_of[Len(args.patterns)] # {}

\* ----------------------------------------------------------------- C13
RECURSIVE Base(_)
\* sum of the colorable-group counts of the patterns processed before the k-th
Base(k) == IF k = 0 THEN 0 ELSE Base(k - 1) + Colorable(k - 1)

\* C13: with varyGroupColors the range of colorable group i (from 0) of a
\* pattern with n colorable groups carries id base + (n - 1 - i); the counter
\* advances by n per pattern, with or without occurrences, and no two patterns
\* share an id.
C13_IdPerGroup ==
    (vary_group_colors(args) /\ pc # "read") =>
        /\ color_idx = Base(re_i)
        /\ (Called /\ InMatch)
              => new_range.id = Base(re_i) + (Colorable(re_i) - 1 - (g_i - 1))
        /\ \A a \in DOMAIN ids_of : \A b \in DOMAIN ids_of :
              a # b => ids_of[a] \cap ids_of[b] = {}

\* the first of several groups of the second pattern is submitted, the first
\* pattern having had no occurrence
C13_Witness ==
    /\ vary_group_colors(args)
    /\ Called /\ InMatch
    /\ re_i = 1
    /\ Colorable(1) >= 2
    /\ g_i = 1
    /\ ids_of[Len(args.patterns)] = {}

\* ----------------------------------------------------------------- C14
\* C14: every range of the sequence match_line returns has start < end.
C14_NoEmptyRange ==
    pc = "print" => \A k \in 1..Len(ranges) : ranges[k].start_idx < ranges[k].end_idx

\* ----------------------------------------------------------------- C15
\* C15 as stated: the leading piece of an overlap is inserted immediately
\* before the existing range and the new range is then marked as placed, so
\* that no further piece is inserted or appended in the same call.
C15_LeadMarksPlaced ==
    /\ lg.ev = "lead"
          => /\ lp.ranges[lg.i0 + 1]
                    = RangeWithId(lg.nr0.start_idx, lg.e.start_idx, lg.nr0.id)
             /\ lp.inserted
    /\ lg.led => lg.late = 0

\* C15 amended: the leading piece [new.start, e.start) with new's id is
\* inserted immediately before e; the new range is marked as placed only if
\* new.end <= e.end, otherwise the remainder [e.end, new.end) stays unplaced,
\* and a further piece is added in the same call exactly when an offset of the
\* remainder is covered by no existing range.
C15_LeadKeepsRemainder ==
    /\ lg.ev = "lead"
          => /\ lp.ranges[lg.i0 + 1]
                    = RangeWithId(lg.nr0.start_idx, lg.e.start_idx, lg.nr0.id)
             /\ lp.ranges[lg.i0 + 2] = lg.e
             /\ lp.i = lg.i0 + 2
             /\ lp.inserted <=> (lg.nr0.end_idx <= lg.e.end_idx)
             /\ (lg.nr0.end_idx > lg.e.end_idx)
                   => lp.new_range = RangeWithId(lg.e.end_idx, lg.nr0.end_idx, lg.nr0.id)
    /\ (Called /\ lg.led)
          => ((lg.late > 0)
                <=> \E p \in Offsets :
                       /\ lg.lead_end <= p
                       /\ Covers(new_range, p)
                       /\ ~Covered(before, p))

\* a call that inserted a leading piece and later another piece
C15_Witness == Called /\ lg.led /\ lg.late >= 1

\* ----------------------------------------------------------------- C16
\* C16: when the scan ends with the new range not placed, what is left of it
\* is pushed only if it is non-empty or the sequence was empty before the call.
C16_NoEmptyAppend ==
    (Called /\ lg.pushed)
        => (lp.new_range.start_idx < lp.new_range.end_idx \/ before = <<>>)

\* ----------------------------------------------------------------- C17
\* id of the ranges submitted for group j of the pattern with caller index c
GroupId(c, j) ==
    LET k == Len(args.patterns) - c
    IN  IF vary_group_colors(args) THEN Base(k) + (Colorable(k) - j) ELSE k

\* the call just made submitted a group that lies inside a lower-numbered
\* participating group of the same occurrence
NestedCall ==
    /\ Stepped /\ Called /\ ~WholeOnly(re_i)
    /\ \E j \in 1..(g_i - 1) :
          /\ cur[j + 1] # <<>>
          /\ cur[j + 1][1] <= new_range.start_idx
          /\ new_range.end_idx <= cur[j + 1][2]

\* C17 as stated: an offset covered by several participating groups of one
\* occurrence ends up, when match_line returns, with the id of the
\* lowest-numbered of them; and a group nested inside a lower-numbered
\* participating group contributes no range.
C17_LowestGroupWins ==
    /\ pc = "print" =>
          \A p \in DOMAIN nested : \A n \in nested[p] :
              IdsAt(ranges, p) = {GroupId(n.pat, n.grp)}
    /\ NestedCall => ranges = before

NonEmpty(r) == r.start_idx < r.end_idx

\* C17 amended: such an offset ends up with the id of the lowest-numbered of
\* those groups unless a pattern processed earlier had a candidate there, which
\* then keeps it; and a group lying inside a lower-numbered participating group
\* adds no non-empty range.
C17_LowestGroupWinsUnlessClaimed ==
    /\ pc = "print" =>
          \A p \in DOMAIN nested : \A n \in nested[p] :
              IF \A c \in claimed[p] : c <= n.pat
              THEN IdsAt(ranges, p) = {GroupId(n.pat, n.grp)}
              ELSE /\ IdsAt(ranges, p) # {}
                   /\ IdsAt(ranges, p) \subseteq ids_of[MaxOf(claimed[p])]
    /\ NestedCall => SelectSeq(ranges, NonEmpty) = SelectSeq(before, NonEmpty)

\* match_line has returned; two groups with different ids covered an offset no
\* other pattern had a candidate at
C17_Witness ==
    /\ pc = "print"
    /\ vary_group_colors(args)
    /\ \E p \in DOMAIN nested : \E n \in nested[p] : claimed[p] = {n.pat}

\* ----------------------------------------------------------------- C18
\* C18: every unchecked read ranges[i] happens with 0 <= i < ranges.len(),
\* also after the call has inserted elements, and reads an element that was in
\* the sequence before the call.
C18_ReadsInBounds ==
    (pc = "scan" /\ LoopGuard(lp)) =>
        /\ 0 <= lp.i
        /\ lp.i < Len(lp.ranges)
        /\ Len(lg.orig) = Len(lp.ranges)
        /\ lg.orig[lp.i + 1]

\* a read is due after the call has inserted an element
C18_Witness ==
    /\ pc = "scan" /\ LoopGuard(lp)
    /\ Len(lp.ranges) > Len(before)

\* ----------------------------------------------------------------- C19
\* C19: the scan reads the ranges that existed before the call exactly once
\* each, in order, and is over after that many iterations: what is left to
\* scan shrinks by one existing range per iteration.
C19_ScanVisitsEachOnce ==
    /\ pc = "scan"
          => /\ Len(lg.reads) <= Len(before)
             /\ lg.reads = SubSeq(before, 1, Len(lg.reads))
             /\ Len(lp.ranges) - lp.i = Len(before) - Len(lg.reads)
    /\ (pc = "call" /\ Called) => lg.reads = before

\* a call on at least two ranges that added two pieces has returned
C19_Witness ==
    /\ pc = "call" /\ Called
    /\ Len(before) >= 2
    /\ Len(ranges) >= Len(before) + 2
====
